---- MODULE Spec2Model ----
(***************************************************************************)
(* Voice-activated recorder of src/temp.py (class VoiceActivatedRecorder): *)
(* the per-frame segmentation state machine (audio_callback), the          *)
(* finalisation and hand-off of an utterance (process_recording) and the   *)
(* session commands (start_listening, stop_listening).                     *)
(*                                                                         *)
(* Units.  Energies are in thousandths (0.02 is 20).  Times are in ticks   *)
(* of 10 ms, the length of one audio chunk (0.3 s is 30).  time.time() is  *)
(* read as the clock `now`; one handler invocation is much shorter than a  *)
(* tick and reads one clock value.                                         *)
(***************************************************************************)
EXTENDS Integers, Sequences, FiniteSets, TLC

VARIABLES
    is_listening,       \* self.is_listening
    is_recording,       \* self.is_recording
    audio_buffer,       \* self.audio_buffer: the chunks of the open utterance, by number
    silence_start,      \* self.silence_start: None or a clock reading
    record_start_time,  \* self.record_start_time: None or a clock reading
    stream,             \* self.stream: "none", "active" or "inactive"
    events,             \* the evaluate_js calls made on the window, in order
    threads,            \* the _send_audio threads started, in order (their audio_data)
    now,                \* the wall clock, in ticks
    delivered,          \* number of chunks the audio subsystem has delivered
    last_call,          \* what happened last: a handler or thread that ran, or "wait"
    volume,             \* the callback's local volume when it ran last, else None
    trigger_frame,      \* ghost: chunk on which the last WAITING -> RECORDING step fired
    heard,              \* ghost: last chunk delivered while the recorder was listening
    quiet_since,        \* ghost: clock of the first chunk of the current unbroken quiet run
    cancelled,          \* ghost: a pending silence timer was cancelled in this utterance
    closes,             \* ghost: one entry per hand-off: its trigger, last chunk and cause
    opened,             \* ghost: the last call constructed an sd.InputStream
    workers,            \* the state of each _send_audio thread, in the order of threads
    audio,              \* where the audio thread stands inside audio_callback
    ui,                 \* where the UI thread stands inside stop_listening
    burst,              \* the run of chunks the audio subsystem is delivering
    served,             \* the responses the /stt endpoint has sent to other clients
    returned            \* what the last call of toggle_listening returned, if any

vars == <<is_listening, is_recording, audio_buffer, silence_start, record_start_time,
          stream, events, threads, now, delivered, last_call, volume,
          trigger_frame, heard, quiet_since, cancelled, closes,
          opened, workers, audio, ui, burst, served, returned>>

\* What a specification that takes each call as one step leaves alone: both
\* threads are outside their handlers and no run of chunks is under way.
fine_vars == <<audio, ui, burst>>

----------------------------------------------------------------------------
(* Bounds of the model *)

\* Chunks the audio subsystem delivers in one run.
MaxFrames == 5
\* How far the clock runs, in steps of 100 ms after construction.
Horizon == 6
\* Scenario B: the number of chunks of the script, and of clock values it starts at.
ScriptFrames == 81
ScenarioStarts == 2
\* Chunks delivered in one run of the two-thread specification.
RaceFrames == 4
\* The dispatch specification: runs of chunks and stalls in one behaviour.
PipeRuns == 4

(* Program constants, src/temp.py lines 68-71 *)

voice_threshold == 20
silence_threshold == 15
silence_duration == 30
min_record_duration == 50

(* Program constants, src/temp.py lines 63-65, 162, 172 and 178 *)

sample_rate == 16000
\* int(sample_rate * chunk_duration), with chunk_duration 0.01
chunk_size == 160
\* the byte floor of line 178
min_file_size == 5000
\* bytes of the header that sf.write puts before the samples of a PCM_16 WAV file
wav_header == 44
\* bytes of one PCM_16 sample of the single channel
sample_width == 2

None == -1

\* Energies a chunk can have: below, at and between the two thresholds, and above.
Energies == {0, 15, 17, 20, 30}

\* Delays between two observations of the clock.
Gaps == {10, 20}

\* The clock at construction: time.time() is a positive number.
StartTimes == {1}

MaxTime == 1 + 10 * Horizon

----------------------------------------------------------------------------
(* The recorder's fields as one value, so that a handler is a function of it *)

Rec == [is_listening |-> is_listening, is_recording |-> is_recording,
        audio_buffer |-> audio_buffer, silence_start |-> silence_start,
        record_start_time |-> record_start_time, stream |-> stream,
        events |-> events, threads |-> threads]

Set(r) ==
    /\ is_listening' = r.is_listening
    /\ is_recording' = r.is_recording
    /\ audio_buffer' = r.audio_buffer
    /\ silence_start' = r.silence_start
    /\ record_start_time' = r.record_start_time
    /\ stream' = r.stream
    /\ events' = r.events
    /\ threads' = r.threads

\* Python truthiness of an optional clock reading: None and 0.0 are false.
Truthy(t) == t # None /\ t # 0

\* An audio chunk as the callback receives it: its place in capture order and its
\* energy.  A chunk is immutable once captured, so the buffer keeps it by its place
\* in capture order.
Chunk(seq, energy) == [seq |-> seq, energy |-> energy]

calculate_volume(audio_chunk) == audio_chunk.energy

----------------------------------------------------------------------------
(* audio_callback, lines 85-132 *)

\* Mutant of VoiceDetected: the comparison is not strict.
VoiceDetected_NotStrict(v) == v >= voice_threshold

\* line 101: a chunk starts a recording
VoiceDetected(v) == v > voice_threshold

\* Mutant of IsSilent: one threshold is used for both decisions.
IsSilent_VoiceThreshold(v) == v < voice_threshold

\* line 121: a chunk counts as silence
IsSilent(v) == v < silence_threshold

\* Mutant of SilenceElapsed: the comparison is strict.
SilenceElapsed_Strict(r, t) == t - r.silence_start > silence_duration

\* line 124: the pending silence has lasted long enough
SilenceElapsed(r, t) == t - r.silence_start >= silence_duration

\* Mutant of MinRecorded: the age is compared with the wrong duration.
MinRecorded_WrongDuration(r, t) ==
    Truthy(r.record_start_time) /\ t - r.record_start_time >= silence_duration

\* lines 126 and 278: the recording is old enough to be handed off
MinRecorded(r, t) ==
    Truthy(r.record_start_time) /\ t - r.record_start_time >= min_record_duration

\* process_recording without the reset of the buffer at line 143
process_recording_KeepsBuffer(r) ==
    IF r.audio_buffer = <<>>
    THEN r
    ELSE [r EXCEPT !.is_recording = FALSE,
                   !.silence_start = None,
                   !.events = Append(@, "showProcessing"),
                   !.threads = Append(@, [audio_data |-> r.audio_buffer])]

\* process_recording without the reset of silence_start at line 145
process_recording_KeepsTimer(r) ==
    IF r.audio_buffer = <<>>
    THEN r
    ELSE [r EXCEPT !.audio_buffer = <<>>,
                   !.is_recording = FALSE,
                   !.events = Append(@, "showProcessing"),
                   !.threads = Append(@, [audio_data |-> r.audio_buffer])]

\* lines 134-156: finalise the buffer and start a _send_audio thread on it
process_recording(r) ==
    IF r.audio_buffer = <<>>
    THEN r
    ELSE [r EXCEPT !.audio_buffer = <<>>,
                   !.is_recording = FALSE,
                   !.silence_start = None,
                   !.events = Append(@, "showProcessing"),
                   !.threads = Append(@, [audio_data |-> r.audio_buffer])]

\* lines 102-113: the body of the voice-detected branch
StartRecording(r, t) ==
    [r EXCEPT !.is_recording = TRUE,
              !.audio_buffer = <<>>,
              !.record_start_time = t,
              !.silence_start = None,
              !.events = Append(@, "showRecording")]

\* Mutant of WaitForVoice: the is_recording test is missing.
WaitForVoice_NoGuard(r, audio_chunk, t) ==
    IF VoiceDetected(calculate_volume(audio_chunk))
    THEN StartRecording(r, t)
    ELSE r

\* lines 100-113: not recording, wait for a voice
WaitForVoice(r, audio_chunk, t) ==
    IF ~r.is_recording /\ VoiceDetected(calculate_volume(audio_chunk))
    THEN StartRecording(r, t)
    ELSE r

\* Mutant of DetectSilence: every silent chunk starts the timer again.
DetectSilence_Restarts(r, audio_chunk, t) ==
    IF IsSilent(calculate_volume(audio_chunk))
    THEN [r EXCEPT !.silence_start = t]
    ELSE [r EXCEPT !.silence_start = None]

\* Mutant of DetectSilence: a chunk that is not silent leaves the timer running.
DetectSilence_NoReset(r, audio_chunk, t) ==
    IF IsSilent(calculate_volume(audio_chunk))
    THEN IF r.silence_start = None
         THEN [r EXCEPT !.silence_start = t]
         ELSE IF SilenceElapsed(r, t) /\ MinRecorded(r, t)
              THEN process_recording(r)
              ELSE r
    ELSE r

\* lines 121-132: the silence timer
DetectSilence(r, audio_chunk, t) ==
    IF IsSilent(calculate_volume(audio_chunk))
    THEN IF r.silence_start = None
         THEN [r EXCEPT !.silence_start = t]
         ELSE IF SilenceElapsed(r, t) /\ MinRecorded(r, t)
              THEN process_recording(r)
              ELSE r
    ELSE [r EXCEPT !.silence_start = None]

\* Mutant of Accumulate: the closing chunk is tested before it is buffered.
Accumulate_LateAppend(r, audio_chunk, t) ==
    IF r.is_recording
    THEN LET r1 == DetectSilence(r, audio_chunk, t)
         IN IF r1.is_recording
            THEN [r1 EXCEPT !.audio_buffer = Append(@, audio_chunk.seq)]
            ELSE r1
    ELSE r

\* lines 116-132: recording, buffer the chunk and watch for silence
Accumulate(r, audio_chunk, t) ==
    IF r.is_recording
    THEN DetectSilence([r EXCEPT !.audio_buffer = Append(@, audio_chunk.seq)], audio_chunk, t)
    ELSE r

\* Mutant of audio_callback: the test of is_listening at line 90 is missing.
audio_callback_NoListenCheck(r, indata, t) ==
    Accumulate(WaitForVoice(r, indata, t), indata, t)

\* lines 85-132: the whole callback, on the fields r, a chunk and the clock t
audio_callback(r, indata, t) ==
    IF ~r.is_listening
    THEN r
    ELSE Accumulate(WaitForVoice(r, indata, t), indata, t)

----------------------------------------------------------------------------
(* start_listening, lines 242-269, and stop_listening, lines 271-297 *)

\* What opening the input stream can do: succeed, raise in sd.InputStream(...),
\* or raise in stream.start().
StartOutcomes == {"ok", "open_raises", "start_raises"}

\* What tearing the stream down can do: succeed, raise in stream.stop(),
\* or raise in stream.close().
StopOutcomes == {"ok", "stop_raises", "close_raises"}

\* start_listening without the early return of lines 244-246
start_listening_NoGuard(r, outcome) ==
    LET r1 == [r EXCEPT !.is_listening = TRUE,
                        !.audio_buffer = <<>>,
                        !.silence_start = None]
    IN CASE outcome = "ok" -> [r1 EXCEPT !.stream = "active"]
         [] outcome = "open_raises" -> [r1 EXCEPT !.is_listening = FALSE]
         [] outcome = "start_raises" ->
                [r1 EXCEPT !.stream = "inactive", !.is_listening = FALSE]

\* lines 244-255: sd.InputStream(...) is constructed unless the call returns
\* early or the constructor itself raises
OpensStream(r, outcome) == ~r.is_listening /\ outcome # "open_raises"

start_listening(r, outcome) ==
    IF r.is_listening
    THEN r
    ELSE LET r1 == [r EXCEPT !.is_listening = TRUE,
                             !.audio_buffer = <<>>,
                             !.silence_start = None]
         IN CASE outcome = "ok" -> [r1 EXCEPT !.stream = "active"]
              [] outcome = "open_raises" -> [r1 EXCEPT !.is_listening = FALSE]
              [] outcome = "start_raises" ->
                     [r1 EXCEPT !.stream = "inactive", !.is_listening = FALSE]

\* Mutant of FlushOnStop: the age of the recording is not tested.
FlushOnStop_NoAgeCheck(r, t) ==
    IF r.is_recording /\ r.audio_buffer # <<>>
    THEN process_recording(r)
    ELSE r

\* lines 276-279: hand off the open recording when it is old enough
FlushOnStop(r, t) ==
    IF r.is_recording /\ r.audio_buffer # <<>> /\ MinRecorded(r, t)
    THEN process_recording(r)
    ELSE r

\* lines 288-290
ResetRecording(r) ==
    [r EXCEPT !.is_recording = FALSE, !.audio_buffer = <<>>, !.silence_start = None]

\* lines 281-297: a raise inside the try skips the resets that follow it
Teardown(r, outcome) ==
    IF r.stream = "none"
    THEN ResetRecording(r)
    ELSE CASE outcome = "ok" -> ResetRecording([r EXCEPT !.stream = "none"])
           [] outcome = "stop_raises" -> r
           [] outcome = "close_raises" -> [r EXCEPT !.stream = "inactive"]

stop_listening(r, outcome, t) ==
    Teardown(FlushOnStop([r EXCEPT !.is_listening = FALSE], t), outcome)

----------------------------------------------------------------------------
(* Threads *)

\* A thread that is outside its handler: no position, no locals.
Outside == [pc |-> "outside", seq |-> 0, energy |-> 0, audio_data |-> <<>>]

\* No run of chunks is being delivered.
NoBurst == [energy |-> 0, left |-> 0, runs |-> 0]

\* What a worker holds before requests.post has returned a response.
\* keys is the set of the keys of the JSON body.
NoReply == [status |-> 0, keys |-> {}, success |-> FALSE, original |-> "",
            translated |-> "", language |-> "", error |-> ""]

\* lines 154-156: a _send_audio thread that was started and has not run yet.
\* temp is the temporary WAV file, emitted the texts passed to showResult.
NewWorker == [pc |-> "start", temp |-> "none", outcome |-> "running",
              reply |-> NoReply, emitted |-> <<>>]

----------------------------------------------------------------------------
(* The /stt endpoint, src/server/server.py lines 41-127 *)

\* str.strip() on the texts of the model
Strip(text) == CASE text = " " -> ""
                 [] text = " hello" -> "hello"
                 [] OTHER -> text

\* The string the endpoint puts in place of a translation that failed
\* (line 83 of server.py; the client compares with the same literal at line 209).
TranslationFailed == "(translation failed)"

\* What model.transcribe can do with the uploaded file: return a text and a
\* language, or raise (FileNotFoundError for a missing ffmpeg, or anything else).
Transcriptions ==
    {[kind |-> "ok", text |-> " hello", language |-> "en"],
     [kind |-> "ok", text |-> " ", language |-> "ko"],
     [kind |-> "ffmpeg_missing", text |-> "", language |-> ""],
     [kind |-> "raises", text |-> "", language |-> ""]}

\* What GoogleTranslator(...).translate can do: return or raise.
Translations == {"ok", "raises"}

\* lines 71-84 of server.py: translation is best effort
Translate(text, translation) ==
    IF translation = "raises" THEN TranslationFailed
    ELSE IF text = "" THEN "" ELSE "translated"

\* The multipart request the client builds at lines 188-199 of temp.py.
Upload == [has_audio |-> TRUE, filename |-> "recording.wav"]

\* The requests the endpoint can get: the client's upload, a POST with no
\* 'audio' part, and one whose 'audio' part has an empty filename.
Requests == {Upload,
             [has_audio |-> FALSE, filename |-> ""],
             [has_audio |-> TRUE, filename |-> ""]}

\* lines 41-127 of server.py: the response to one request
speech_to_text(request, transcription, translation) ==
    IF ~request.has_audio
    THEN [NoReply EXCEPT !.status = 400, !.keys = {"error"},
                         !.error = "No audio file provided"]
    ELSE IF request.filename = ""
    THEN [NoReply EXCEPT !.status = 400, !.keys = {"error"},
                         !.error = "Empty filename"]
    ELSE CASE transcription.kind = "ok" ->
                  [status |-> 200, success |-> TRUE,
                   keys |-> {"success", "original", "translated", "language"},
                   original |-> Strip(transcription.text),
                   translated |-> Translate(Strip(transcription.text), translation),
                   language |-> transcription.language, error |-> ""]
           [] transcription.kind = "ffmpeg_missing" ->
                  [NoReply EXCEPT !.status = 500, !.keys = {"success", "error"},
                                  !.error = "ffmpeg is not installed"]
           [] OTHER ->
                  [NoReply EXCEPT !.status = 500, !.keys = {"success", "error"},
                                  !.error = "transcription failed"]

----------------------------------------------------------------------------
(* _send_audio, src/temp.py lines 158-240 *)

\* len(audio_data): the chunks are concatenated, chunk_size samples each
Samples(audio_data) == Len(audio_data) * chunk_size

\* Mutant of TooShort: the test of line 162 is missing.
TooShort_NoFloor(audio_data) == FALSE

\* line 162: len(audio_data) < self.sample_rate * 0.3
TooShort(audio_data) == 10 * Samples(audio_data) < 3 * sample_rate

\* Mutant of file_size: the samples are written as 8-bit PCM.
file_size_OneBytePerSample(audio_data) == wav_header + Samples(audio_data)

\* line 174: the size of the file sf.write produced at line 172
file_size(audio_data) == wav_header + sample_width * Samples(audio_data)

\* line 178
TooSmall(audio_data) == file_size(audio_data) < min_file_size

\* What writing the WAV file can do.
WriteOutcomes == {"ok", "raises"}

\* lines 160-181: the floors and the temporary file, up to the upload.
\* A raise in sf.write is caught at line 237, after the file was created.
Prepare(w, audio_data, write) ==
    IF TooShort(audio_data)
    THEN [w EXCEPT !.pc = "done", !.outcome = "too_short"]
    ELSE IF write = "raises"
    THEN [w EXCEPT !.pc = "done", !.outcome = "write_failed", !.temp = "exists"]
    ELSE IF TooSmall(audio_data)
    THEN [w EXCEPT !.pc = "done", !.outcome = "too_small", !.temp = "deleted"]
    ELSE [w EXCEPT !.pc = "posting", !.temp = "exists"]

\* Mutant of ResultText: the translation is not compared with the sentinel.
ResultText_NoSentinelCheck(reply) ==
    IF reply.translated # "" THEN reply.translated ELSE reply.original

\* Mutant of ResultText: the original is shown whatever the translation.
ResultText_OriginalOnly(reply) == reply.original

\* lines 208-212: the text to show
ResultText(reply) ==
    IF reply.translated # "" /\ reply.translated # TranslationFailed
    THEN reply.translated
    ELSE reply.original

\* What requests.post and response.json() can do: a response with a JSON body
\* arrives, the connection fails, the 30 s timeout expires, or anything else
\* is raised (a body that is not JSON, for one).
NetOutcomes == {"answered", "connection_error", "timeout", "exception"}

\* lines 201-230: a response arrived; the file is unlinked at line 230
Handle(w, reply) ==
    LET w1 == [w EXCEPT !.pc = "done", !.reply = reply, !.temp = "deleted"]
    IN IF reply.status = 200
       THEN IF reply.success
            THEN IF Strip(ResultText(reply)) # ""
                 THEN [w1 EXCEPT !.outcome = "shown",
                                 !.emitted = Append(@, ResultText(reply))]
                 ELSE [w1 EXCEPT !.outcome = "blank"]
            ELSE [w1 EXCEPT !.outcome = "service_failure"]
       ELSE [w1 EXCEPT !.outcome = "http_error"]

\* Mutant of Finish: a text is shown when the upload raised.
Finish_ShowsWithoutAnswer(w, net, reply) ==
    IF net = "answered"
    THEN Handle(w, reply)
    ELSE [w EXCEPT !.pc = "done", !.outcome = net, !.emitted = Append(@, "")]

\* lines 183-240: the upload and what follows it.  The except clauses of lines
\* 232-240 print and return: they neither unlink the file nor call the window.
Finish(w, net, reply) ==
    IF net = "answered"
    THEN Handle(w, reply)
    ELSE [w EXCEPT !.pc = "done", !.outcome = net]

----------------------------------------------------------------------------
(* The state machine *)

Init ==
    /\ is_listening = FALSE
    /\ is_recording = FALSE
    /\ audio_buffer = <<>>
    /\ silence_start = None
    /\ record_start_time = None
    /\ stream = "none"
    /\ events = <<>>
    /\ threads = <<>>
    /\ now \in StartTimes
    /\ delivered = 0
    /\ last_call = "none"
    /\ volume = None
    /\ trigger_frame = 0
    /\ heard = 0
    /\ quiet_since = None
    /\ cancelled = FALSE
    /\ closes = <<>>
    /\ opened = FALSE
    /\ workers = <<>>
    /\ audio = Outside
    /\ ui = Outside
    /\ burst = NoBurst
    /\ served = <<>>
    /\ returned = <<>>

\* Ghost bookkeeping of a step that takes the fields from Rec to r2.
HandedOff(r2) == Len(r2.threads) > Len(threads)

\* Mutant of Spawn: _send_audio is called in place, up to its upload, before
\* process_recording returns.
Spawn_InPlace(r2) ==
    workers' = IF HandedOff(r2)
               THEN Append(workers, [NewWorker EXCEPT !.pc = "posting", !.temp = "exists"])
               ELSE workers

\* Mutant of Spawn: the threads still at work are abandoned.
Spawn_Cancelling(r2) ==
    LET kept == [i \in 1..Len(workers) |->
                    IF workers[i].pc = "done" THEN workers[i]
                    ELSE [workers[i] EXCEPT !.pc = "done", !.outcome = "cancelled"]]
    IN workers' = IF HandedOff(r2) THEN Append(kept, NewWorker) ELSE kept

\* lines 154-156: thread.start() returns at once; the thread has yet to run
Spawn(r2) ==
    workers' = IF HandedOff(r2) THEN Append(workers, NewWorker) ELSE workers

NoteClose(r2, last, cause) ==
    closes' = IF HandedOff(r2)
              THEN Append(closes, [trigger |-> trigger_frame, last |-> last,
                                   cause |-> cause])
              ELSE closes

\* The audio subsystem delivers chunk number delivered + 1 with energy e at clock t.
Deliver(e, t) ==
    LET indata == Chunk(delivered + 1, e)
        r2 == audio_callback(Rec, indata, t)
        triggers == is_listening /\ ~is_recording /\ e > voice_threshold
    IN /\ Set(r2)
       /\ now' = t
       /\ delivered' = delivered + 1
       /\ last_call' = "audio_callback"
       /\ volume' = e
       /\ heard' = IF is_listening THEN delivered + 1 ELSE heard
       /\ trigger_frame' = IF triggers THEN delivered + 1 ELSE trigger_frame
       /\ quiet_since' = IF ~is_listening THEN quiet_since
                         ELSE IF ~r2.is_recording THEN None
                         ELSE IF e < silence_threshold
                              THEN (IF quiet_since = None THEN t ELSE quiet_since)
                              ELSE None
       /\ cancelled' = IF triggers THEN FALSE
                       ELSE IF is_listening /\ is_recording /\ quiet_since # None
                               /\ e >= silence_threshold
                            THEN TRUE
                            ELSE cancelled
       /\ NoteClose(r2, delivered + 1, "silence")
       /\ Spawn(r2)
       /\ opened' = FALSE
       /\ UNCHANGED <<served, returned>>

\* A stream that was started calls audio_callback with the next chunk.
Frame ==
    /\ stream = "active"
    /\ delivered < MaxFrames
    /\ \E e \in Energies : Deliver(e, now)
    /\ UNCHANGED fine_vars

\* Time passes.
Pass ==
    \E d \in Gaps :
        /\ now + d <= MaxTime
        /\ now' = now + d
        /\ last_call' = "wait"
        /\ volume' = None
        /\ UNCHANGED <<is_listening, is_recording, audio_buffer, silence_start,
                       record_start_time, stream, events, threads, delivered,
                       trigger_frame, heard, quiet_since, cancelled, closes,
                       workers, served, returned>>
        /\ opened' = FALSE
        /\ UNCHANGED fine_vars

\* One call of start_listening in which the device does `outcome`.
StartListeningCall(outcome) ==
    /\ Set(start_listening(Rec, outcome))
    /\ last_call' = "start_listening"
    /\ volume' = None
    /\ quiet_since' = IF is_listening THEN quiet_since ELSE None
    /\ opened' = OpensStream(Rec, outcome)
    /\ UNCHANGED <<now, delivered, trigger_frame, heard, cancelled, closes, workers>>
    /\ UNCHANGED fine_vars
    /\ UNCHANGED served

\* The recorder's start_listening called on its own.
StartListeningWith(outcome) == StartListeningCall(outcome) /\ UNCHANGED returned

StartListening == \E outcome \in StartOutcomes : StartListeningWith(outcome)

\* One call of stop_listening in which the device does `outcome`.
StopListeningCall(outcome) ==
    LET r2 == stop_listening(Rec, outcome, now)
    IN /\ Set(r2)
       /\ last_call' = "stop_listening"
       /\ volume' = None
       /\ NoteClose(r2, heard, "stop")
       /\ quiet_since' = None
       /\ Spawn(r2)
       /\ opened' = FALSE
       /\ UNCHANGED <<now, delivered, trigger_frame, heard, cancelled, served>>
       /\ UNCHANGED fine_vars

\* The recorder's stop_listening called on its own.
StopListeningWith(outcome) == StopListeningCall(outcome) /\ UNCHANGED returned

StopListening == \E outcome \in StopOutcomes : StopListeningWith(outcome)

Next == Frame \/ Pass \/ StartListening \/ StopListening

Spec == Init /\ [][Next]_vars

----------------------------------------------------------------------------
(* Scenario B of the specification: listening, one chunk every 10 ms, the   *)
(* first at energy 0.03 and the others at energy 0.00.                      *)

ScriptEnergy(k) == IF k = 1 THEN 30 ELSE 0

\* The state a successful start_listening leaves a new recorder in.
InitB ==
    /\ is_listening = TRUE
    /\ is_recording = FALSE
    /\ audio_buffer = <<>>
    /\ silence_start = None
    /\ record_start_time = None
    /\ stream = "active"
    /\ events = <<>>
    /\ threads = <<>>
    /\ now \in 1..ScenarioStarts
    /\ delivered = 0
    /\ last_call = "start_listening"
    /\ volume = None
    /\ trigger_frame = 0
    /\ heard = 0
    /\ quiet_since = None
    /\ cancelled = FALSE
    /\ closes = <<>>
    /\ opened = FALSE
    /\ workers = <<>>
    /\ audio = Outside
    /\ ui = Outside
    /\ burst = NoBurst
    /\ served = <<>>
    /\ returned = <<>>

ScriptFrame ==
    /\ delivered < ScriptFrames
    /\ Deliver(ScriptEnergy(delivered + 1), now + 1)
    /\ UNCHANGED fine_vars

NextB == ScriptFrame

ScenarioB == InitB /\ [][NextB]_vars

----------------------------------------------------------------------------
(* The audio thread inside audio_callback and the UI thread inside          *)
(* stop_listening, statement by statement.  Nothing in src/temp.py locks    *)
(* the recorder's fields, so the two threads interleave between statements.  *)
(* A position is named after the source line the thread is about to run.    *)

fields == <<is_listening, is_recording, audio_buffer, silence_start,
            record_start_time, stream, events, threads>>

\* A recording of two chunks that has just become old enough to be handed off:
\* the trigger came with the clock at 1, the first quiet chunk 100 ms later.
InitRace ==
    /\ is_listening = TRUE
    /\ is_recording = TRUE
    /\ audio_buffer = <<1, 2>>
    /\ record_start_time = 1
    /\ silence_start = 11
    /\ stream = "active"
    /\ events = <<"showRecording">>
    /\ threads = <<>>
    /\ now = 1 + min_record_duration
    /\ delivered = 2
    /\ last_call = "wait"
    /\ volume = None
    /\ trigger_frame = 1
    /\ heard = 2
    /\ quiet_since = 11
    /\ cancelled = FALSE
    /\ closes = <<>>
    /\ opened = FALSE
    /\ workers = <<>>
    /\ audio = Outside
    /\ ui = Outside
    /\ burst = NoBurst
    /\ served = <<>>
    /\ returned = <<>>

\* lines 85-97: the stream calls audio_callback; it returns at once when the
\* recorder is not listening, else it copies the chunk and computes its volume.
CbEnter ==
    /\ audio.pc = "outside"
    /\ stream = "active"
    /\ delivered < RaceFrames
    /\ \E e \in Energies :
          /\ audio' = IF is_listening
                       THEN [Outside EXCEPT !.pc = "l100", !.seq = delivered + 1,
                                            !.energy = calculate_volume(Chunk(delivered + 1, e))]
                       ELSE Outside
          /\ volume' = e
    /\ delivered' = delivered + 1
    /\ last_call' = "audio_callback"
    /\ heard' = IF is_listening THEN delivered + 1 ELSE heard
    /\ opened' = FALSE
    /\ UNCHANGED <<fields, now, trigger_frame, quiet_since, cancelled, closes,
                   workers, ui, burst>>
    /\ UNCHANGED <<served, returned>>

\* lines 100-113
CbDetect ==
    /\ audio.pc = "l100"
    /\ Set(WaitForVoice(Rec, Chunk(audio.seq, audio.energy), now))
    /\ audio' = [audio EXCEPT !.pc = "l116"]
    /\ trigger_frame' = IF ~is_recording /\ VoiceDetected(audio.energy)
                         THEN audio.seq ELSE trigger_frame
    /\ cancelled' = IF ~is_recording /\ VoiceDetected(audio.energy)
                     THEN FALSE ELSE cancelled
    /\ UNCHANGED <<now, delivered, last_call, volume, heard, quiet_since, closes,
                   opened, workers, ui, burst>>
    /\ UNCHANGED <<served, returned>>

\* lines 116-132, up to the call of process_recording at line 129
CbAccumulate ==
    /\ audio.pc = "l116"
    /\ LET appended == [Rec EXCEPT !.audio_buffer = Append(@, audio.seq)]
           calls == /\ is_recording
                    /\ IsSilent(audio.energy)
                    /\ silence_start # None
                    /\ SilenceElapsed(appended, now)
                    /\ MinRecorded(appended, now)
       IN IF calls
          THEN /\ Set(appended)
               /\ audio' = [audio EXCEPT !.pc = "l136"]
          ELSE /\ Set(Accumulate(Rec, Chunk(audio.seq, audio.energy), now))
               /\ audio' = Outside
    /\ quiet_since' = IF ~is_recording THEN None
                       ELSE IF IsSilent(audio.energy)
                            THEN (IF quiet_since = None THEN now ELSE quiet_since)
                            ELSE None
    /\ cancelled' = IF is_recording /\ quiet_since # None /\ ~IsSilent(audio.energy)
                     THEN TRUE ELSE cancelled
    /\ UNCHANGED <<now, delivered, last_call, volume, heard, trigger_frame, closes,
                   opened, workers, ui, burst>>
    /\ UNCHANGED <<served, returned>>

\* Where a thread goes when process_recording returns or raises: the callback
\* is over; stop_listening goes on to its try block at line 281, and is
\* abandoned when the call at line 279 raised.
Return(self, th, raised) ==
    IF self = "audio" \/ raised THEN Outside ELSE [th EXCEPT !.pc = "l281"]

\* lines 134-156, one statement a step, run by `self` at position th; th2 is
\* the position it moves to.
ProcessAt(self, th, th2) ==
    \/ /\ th.pc = "l136"
       /\ th2 = IF audio_buffer = <<>> THEN Return(self, th, FALSE)
                 ELSE [th EXCEPT !.pc = "l142"]
       /\ UNCHANGED <<fields, closes, workers>>
    \* np.concatenate raises ValueError on an empty list
    \/ /\ th.pc = "l142"
       /\ th2 = IF audio_buffer = <<>> THEN Return(self, th, TRUE)
                 ELSE [th EXCEPT !.pc = "l143", !.audio_data = audio_buffer]
       /\ UNCHANGED <<fields, closes, workers>>
    \/ /\ th.pc = "l143"
       /\ th2 = [th EXCEPT !.pc = "l144"]
       /\ Set([Rec EXCEPT !.audio_buffer = <<>>])
       /\ UNCHANGED <<closes, workers>>
    \/ /\ th.pc = "l144"
       /\ th2 = [th EXCEPT !.pc = "l149"]
       /\ Set([Rec EXCEPT !.is_recording = FALSE, !.silence_start = None])
       /\ UNCHANGED <<closes, workers>>
    \/ /\ th.pc = "l149"
       /\ th2 = Return(self, th, FALSE)
       /\ Set([Rec EXCEPT !.events = Append(@, "showProcessing"),
                           !.threads = Append(@, [audio_data |-> th.audio_data])])
       /\ workers' = Append(workers, NewWorker)
       /\ closes' = Append(closes, [trigger |-> trigger_frame, last |-> heard,
                                     cause |-> IF self = "audio" THEN "silence"
                                               ELSE "stop"])

CbProcess ==
    /\ \E th2 \in {Outside} \cup {[audio EXCEPT !.pc = p, !.audio_data = d] :
                                      p \in {"l142", "l143", "l144", "l149"},
                                      d \in {audio.audio_data, audio_buffer}} :
          /\ ProcessAt("audio", audio, th2)
          /\ audio' = th2
    /\ UNCHANGED <<now, delivered, last_call, volume, heard, trigger_frame,
                   quiet_since, cancelled, opened, ui, burst>>
    /\ UNCHANGED <<served, returned>>

\* line 274
StopEnter ==
    /\ ui.pc = "outside"
    /\ ui' = [Outside EXCEPT !.pc = "l277"]
    /\ Set([Rec EXCEPT !.is_listening = FALSE])
    /\ last_call' = "stop_listening"
    /\ opened' = FALSE
    /\ UNCHANGED <<now, delivered, volume, heard, trigger_frame, quiet_since,
                   cancelled, closes, workers, audio, burst>>
    /\ UNCHANGED <<served, returned>>

\* lines 277-278
StopCheck ==
    /\ ui.pc = "l277"
    /\ ui' = IF is_recording /\ audio_buffer # <<>> /\ MinRecorded(Rec, now)
              THEN [ui EXCEPT !.pc = "l136"]
              ELSE [ui EXCEPT !.pc = "l281"]
    /\ UNCHANGED <<fields, now, delivered, last_call, volume, heard, trigger_frame,
                   quiet_since, cancelled, closes, opened, workers, audio, burst>>
    /\ UNCHANGED <<served, returned>>

StopProcess ==
    /\ \E th2 \in {Outside} \cup {[ui EXCEPT !.pc = p, !.audio_data = d] :
                                      p \in {"l142", "l143", "l144", "l149", "l281"},
                                      d \in {ui.audio_data, audio_buffer}} :
          /\ ProcessAt("ui", ui, th2)
          /\ ui' = th2
    /\ UNCHANGED <<now, delivered, last_call, volume, heard, trigger_frame,
                   quiet_since, cancelled, opened, audio, burst>>
    /\ UNCHANGED <<served, returned>>

\* lines 281-297.  stream.stop() returns once the callback in progress has
\* returned, so the teardown does not overlap a callback.
StopTeardown ==
    /\ ui.pc = "l281"
    /\ audio.pc = "outside"
    /\ \E outcome \in StopOutcomes : Set(Teardown(Rec, outcome))
    /\ ui' = Outside
    /\ quiet_since' = None
    /\ UNCHANGED <<now, delivered, last_call, volume, heard, trigger_frame,
                   cancelled, closes, opened, workers, audio, burst>>
    /\ UNCHANGED <<served, returned>>

NextRace ==
    \/ CbEnter \/ CbDetect \/ CbAccumulate \/ CbProcess
    \/ StopEnter \/ StopCheck \/ StopProcess \/ StopTeardown
    \/ Pass

Interleaved == InitRace /\ [][NextRace]_vars

----------------------------------------------------------------------------
(* The recorder at the cadence of the device, one chunk every 10 ms, with    *)
(* the _send_audio threads it starts.  Chunks come in runs of one energy; a  *)
(* stall is a stretch in which the device delivers nothing (input overflow). *)
(* Commands, stalls and worker steps are taken between runs.  The device     *)
(* opens and closes without error here; its failures are explored by Spec.   *)

\* The runs: one loud chunk, and quiet stretches of 290 ms and 500 ms.
RunKinds == {[energy |-> 30, left |-> 1], [energy |-> 0, left |-> 29],
             [energy |-> 0, left |-> 50]}

\* The runs and stalls taken so far are counted in the third field of burst.
InitPipe == Init

Calm == burst.left = 0

BeginRun ==
    /\ Calm
    /\ stream = "active"
    /\ burst.runs < PipeRuns
    /\ \E kind \in RunKinds :
          burst' = [energy |-> kind.energy, left |-> kind.left, runs |-> burst.runs + 1]
    /\ UNCHANGED <<fields, now, delivered, last_call, volume, trigger_frame, heard,
                   quiet_since, cancelled, closes, opened, workers, audio, ui>>
    /\ UNCHANGED <<served, returned>>

RunFrame ==
    /\ burst.left > 0
    /\ Deliver(burst.energy, now + 1)
    /\ burst' = [burst EXCEPT !.left = @ - 1]
    /\ UNCHANGED <<audio, ui>>

Stall ==
    /\ Calm
    /\ burst.runs < PipeRuns
    /\ now' = now + min_record_duration
    /\ burst' = [burst EXCEPT !.runs = @ + 1]
    /\ last_call' = "wait"
    /\ volume' = None
    /\ opened' = FALSE
    /\ UNCHANGED <<fields, delivered, trigger_frame, heard, quiet_since, cancelled,
                   closes, workers, audio, ui>>
    /\ UNCHANGED <<served, returned>>

\* Mutant of AfterDispatch: the thread that ends resets the recording.
AfterDispatch_ResetsRecording(r, w, w2) ==
    [r EXCEPT !.is_recording = FALSE, !.audio_buffer = <<>>, !.silence_start = None,
              !.events = IF Len(w2.emitted) > Len(w.emitted)
                         THEN Append(@, "showResult") ELSE @]

\* lines 158-240: what a step of _send_audio that takes its thread from w to
\* w2 does to the recorder and the window.  It reads self.sample_rate and
\* self.api and assigns no field; showResult is one more evaluate_js call.
AfterDispatch(r, w, w2) ==
    [r EXCEPT !.events = IF Len(w2.emitted) > Len(w.emitted)
                         THEN Append(@, "showResult") ELSE @]

\* A _send_audio thread runs lines 160-181.
WorkerBegin ==
    /\ Calm
    /\ \E i \in 1..Len(workers) :
          /\ workers[i].pc = "start"
          /\ \E write \in WriteOutcomes :
                LET w2 == Prepare(workers[i], threads[i].audio_data, write)
                IN /\ workers' = [workers EXCEPT ![i] = w2]
                   /\ Set(AfterDispatch(Rec, workers[i], w2))
    /\ last_call' = "_send_audio"
    /\ volume' = None
    /\ opened' = FALSE
    /\ UNCHANGED <<now, delivered, trigger_frame, heard, quiet_since, cancelled,
                   closes, audio, ui, burst>>
    /\ UNCHANGED <<served, returned>>

\* requests.post returns or raises in a _send_audio thread, which then runs to
\* its end; showResult, when called, is one more evaluate_js on the window.
WorkerFinish ==
    /\ Calm
    /\ \E i \in 1..Len(workers) :
          /\ workers[i].pc = "posting"
          /\ \E net \in NetOutcomes, transcription \in Transcriptions,
                 translation \in Translations :
                LET w2 == Finish(workers[i], net,
                                 speech_to_text(Upload, transcription, translation))
                IN /\ workers' = [workers EXCEPT ![i] = w2]
                   /\ Set(AfterDispatch(Rec, workers[i], w2))
    /\ last_call' = "_send_audio"
    /\ volume' = None
    /\ opened' = FALSE
    /\ UNCHANGED <<now, delivered, trigger_frame, heard, quiet_since, cancelled,
                   closes, audio, ui, burst>>
    /\ UNCHANGED <<served, returned>>

NextPipe ==
    \/ BeginRun
    \/ RunFrame
    \/ Stall
    \/ Calm /\ StartListeningWith("ok")
    \/ Calm /\ StopListeningWith("ok")
    \/ WorkerBegin
    \/ WorkerFinish

Pipeline == InitPipe /\ [][NextPipe]_vars

\* The device goes on delivering the chunks of a run, and a thread that can
\* take a step takes it: the scheduler starves no thread, and requests.post
\* returns or raises within its timeout of 30 s (line 198).
PipelineFair ==
    Pipeline /\ WF_vars(RunFrame) /\ WF_vars(WorkerBegin) /\ WF_vars(WorkerFinish)

----------------------------------------------------------------------------
(* Vocabulary of the properties *)

Waiting == is_listening /\ ~is_recording
Recording == is_listening /\ is_recording

\* The step is one invocation of audio_callback.
CallbackStep == last_call' = "audio_callback" /\ delivered' = delivered + 1

\* The step is one invocation of stop_listening.
StopStep == last_call' = "stop_listening"

\* The step starts a _send_audio thread.
Closed == Len(threads') = Len(threads) + 1

Count(seq, x) == Cardinality({i \in DOMAIN seq : seq[i] = x})

\* The chunks a to b in capture order.
ChunkRange(a, b) == [i \in 1..(b - a + 1) |-> a + i - 1]

\* The fields of the recorder are those of IDLE.
Idle(listening, recording, buffer, silence) ==
    ~listening /\ ~recording /\ buffer = <<>> /\ silence = None

LastClose == closes[Len(closes)]

----------------------------------------------------------------------------
(* Properties *)

\* C1: a chunk louder than voice_threshold that arrives while WAITING leaves the
\* recorder RECORDING when audio_callback returns and emits showRecording once;
\* no later chunk of the open recording emits showRecording again.
C1_TriggerStartsRecording ==
    [][CallbackStep =>
        /\ (Waiting /\ volume' > voice_threshold) =>
              /\ is_listening' /\ is_recording'
              /\ events' = Append(events, "showRecording")
        /\ is_recording =>
              Count(events', "showRecording") = Count(events, "showRecording")]_vars

\* C1 witness: a later loud chunk of a recording that was triggered from WAITING,
\* with still one showRecording.
C1_Witness ==
    /\ last_call = "audio_callback" /\ Recording
    /\ volume > voice_threshold
    /\ 0 < trigger_frame /\ trigger_frame < delivered /\ heard = delivered
    /\ Head(audio_buffer) = trigger_frame
    /\ Count(events, "showRecording") = 1

\* C2: while RECORDING, a quiet chunk that arrives when the quiet run has lasted
\* silence_duration and the recording min_record_duration hands the utterance off
\* exactly once (one thread, one showProcessing, one close per trigger), and a quiet
\* chunk that follows the close hands nothing off.
C2_OneCloseOnSilence ==
    [][CallbackStep =>
        /\ (/\ Recording /\ volume' < silence_threshold
            /\ quiet_since # None /\ now' - quiet_since >= silence_duration
            /\ record_start_time # None
            /\ now' - record_start_time >= min_record_duration) =>
              /\ Closed
              /\ events' = Append(events, "showProcessing")
              /\ is_listening' /\ ~is_recording'
              /\ \A i \in DOMAIN closes : closes[i].trigger # trigger_frame
        /\ (~is_recording /\ volume' < silence_threshold) =>
              /\ threads' = threads
              /\ events' = events]_vars

\* C2 witness: a quiet chunk delivered after a silence close, and still one hand-off.
C2_Witness ==
    /\ last_call = "audio_callback" /\ Waiting
    /\ volume < silence_threshold
    /\ Len(closes) = 1 /\ LastClose.cause = "silence"
    /\ LastClose.last < delivered /\ heard = delivered
    /\ Len(threads) = 1
    /\ Count(events, "showProcessing") = 1

\* C3: every utterance handed to a thread is exactly the chunks from its triggering
\* chunk to its closing chunk (the last chunk heard, for a close by stop_listening),
\* in capture order, each once.
C3_ExactFrames ==
    \A i \in DOMAIN threads :
        threads[i].audio_data = ChunkRange(closes[i].trigger, closes[i].last)

\* C4: a close by silence happens only at recording age >= min_record_duration; a
\* quiet chunk that finds the silence long enough but the recording too young is
\* buffered and the recording goes on; the first quiet chunk that finds both closes.
C4_NoCloseBeforeMinDuration ==
    [][CallbackStep =>
        /\ Closed => /\ record_start_time # None
                     /\ now' - record_start_time >= min_record_duration
        /\ (/\ Recording /\ volume' < silence_threshold
            /\ quiet_since # None /\ now' - quiet_since >= silence_duration
            /\ now' - record_start_time < min_record_duration) =>
              /\ is_recording'
              /\ audio_buffer' = Append(audio_buffer, delivered')
              /\ threads' = threads
        /\ (/\ Recording /\ volume' < silence_threshold
            /\ quiet_since # None /\ now' - quiet_since >= silence_duration
            /\ now' - record_start_time >= min_record_duration) =>
              Closed]_vars

\* C4 witness: a quiet chunk has just found the silence long enough and the
\* recording too young, and the recording is still open with the chunk buffered.
C4_Witness ==
    /\ last_call = "audio_callback" /\ Recording
    /\ volume < silence_threshold
    /\ quiet_since # None /\ now - quiet_since >= silence_duration
    /\ now - record_start_time < min_record_duration
    /\ audio_buffer[Len(audio_buffer)] = delivered

\* C5 as the specification states it: in Scenario B the hand-off holds all 81 chunks.
C5_AllScriptFrames ==
    delivered = ScriptFrames =>
        \E i \in DOMAIN threads : Len(threads[i].audio_data) = ScriptFrames

\* C5 as the code has it: in Scenario B the recording closes on chunk 51, the first
\* at which the recording is 0.5 s old; the one hand-off holds chunks 1 to 51 and
\* the 30 chunks after it are dropped in WAITING.
C5_ClosesAtMinDuration ==
    /\ delivered <= min_record_duration =>
          /\ threads = <<>>
          /\ delivered > 0 => is_recording /\ audio_buffer = ChunkRange(1, delivered)
    /\ delivered > min_record_duration =>
          /\ threads = <<[audio_data |-> ChunkRange(1, min_record_duration + 1)]>>
          /\ events = <<"showRecording", "showProcessing">>
          /\ Waiting /\ audio_buffer = <<>>

\* C5 witness: the script has run to its end and one utterance was handed off.
C5_Witness ==
    delivered = ScriptFrames /\ Len(threads) = 1 /\ LastClose.cause = "silence"

\* C6: while RECORDING, a chunk whose energy is strictly between the thresholds
\* leaves the silence timer unset, closes nothing, emits nothing and is buffered.
C6_Hysteresis ==
    [][CallbackStep =>
        ((/\ Recording
          /\ volume' > silence_threshold /\ volume' < voice_threshold) =>
            /\ silence_start' = None
            /\ is_listening' /\ is_recording'
            /\ audio_buffer' = Append(audio_buffer, delivered')
            /\ threads' = threads
            /\ events' = events)]_vars

\* C6 witness: the recording is open after two chunks in a row between the thresholds.
C6_Witness ==
    /\ last_call = "audio_callback" /\ Recording
    /\ volume > silence_threshold /\ volume < voice_threshold
    /\ Len(audio_buffer) >= 3 /\ audio_buffer[Len(audio_buffer)] = delivered
    /\ silence_start = None /\ quiet_since = None
    /\ threads = <<>>

\* C7: while RECORDING with the timer pending, a chunk at or above
\* silence_threshold clears silence_start; and a close by silence happens only when
\* the current unbroken run of quiet chunks has itself lasted silence_duration.
C7_InterruptionRestartsTimer ==
    [][CallbackStep =>
        /\ (Recording /\ silence_start # None /\ volume' >= silence_threshold) =>
              /\ silence_start' = None
              /\ is_recording'
              /\ threads' = threads
        /\ Closed => /\ quiet_since # None
                     /\ now' - quiet_since >= silence_duration]_vars

\* C7 witness: an utterance whose silence timer was cancelled has been closed by a
\* later run of silence.
C7_Witness ==
    /\ closes # <<>> /\ LastClose.cause = "silence"
    /\ LastClose.trigger = trigger_frame /\ LastClose.last = delivered
    /\ cancelled
    /\ Waiting

\* C8: while WAITING, a chunk that does not exceed voice_threshold changes no field
\* of the recorder and emits nothing.
C8_QuietWhileWaiting ==
    [][CallbackStep =>
        ((Waiting /\ volume' <= voice_threshold) =>
            UNCHANGED <<is_listening, is_recording, audio_buffer, silence_start,
                        record_start_time, stream, events, threads>>)]_vars

\* C8 witness: WAITING after several chunks, the last exactly at voice_threshold.
C8_Witness ==
    /\ last_call = "audio_callback" /\ Waiting
    /\ volume = voice_threshold
    /\ delivered >= 3 /\ heard = delivered
    /\ events = <<>> /\ audio_buffer = <<>> /\ record_start_time = None

\* C9: stop_listening ends in IDLE from every state; a RECORDING that is
\* min_record_duration old is handed off once, anything else hands nothing off.
C9_StopEndsIdle ==
    [][StopStep =>
        /\ Idle(is_listening', is_recording', audio_buffer', silence_start')
        /\ IF /\ Recording /\ record_start_time # None
              /\ now - record_start_time >= min_record_duration
           THEN /\ threads' = Append(threads, [audio_data |-> audio_buffer])
                /\ events' = Append(events, "showProcessing")
           ELSE threads' = threads /\ events' = events]_vars

\* C10: a stop_listening that directly follows a stop_listening hands nothing off,
\* emits nothing and leaves the recorder as the first call left it, in IDLE.
C10_SecondStopNoOp ==
    [][(last_call = "stop_listening" /\ StopStep) =>
        /\ threads' = threads
        /\ events' = events
        /\ Idle(is_listening, is_recording, audio_buffer, silence_start)
        /\ UNCHANGED <<is_listening, is_recording, audio_buffer, silence_start,
                       record_start_time>>]_vars

----------------------------------------------------------------------------
StartStep == last_call' = "start_listening"

\* C12: start_listening called while the recorder is listening changes none of
\* is_listening, is_recording, audio_buffer, silence_start, record_start_time
\* and the stream handle, and constructs no input stream.
C12_StartWhileListeningNoOp ==
    [][(StartStep /\ is_listening) =>
          /\ UNCHANGED <<is_listening, is_recording, audio_buffer, silence_start,
                         record_start_time, stream>>
          /\ ~opened']_vars

\* start_listening has just returned in the middle of an utterance with a
\* pending silence timer: the buffer it would have emptied is intact.
C12_Witness ==
    /\ last_call = "start_listening"
    /\ Recording
    /\ audio_buffer # <<>>
    /\ silence_start # None
    /\ ~opened

\* C13: whenever is_recording is set, the utterance buffer is non-empty.
C13_RecordingHasFrames == is_recording => audio_buffer # <<>>

\* A callback that found the recorder listening, and so processed its chunk.
ProcessedStep == CallbackStep /\ is_listening

\* C14: silence_start is None whenever is_recording is false; a processed chunk
\* with energy at or above silence_threshold leaves silence_start None, and
\* silence_start then stays None until the next chunk is processed, whatever
\* start_listening, stop_listening and ignored chunks come in between.
C14_SilenceTimerUnset ==
    /\ [](~is_recording => silence_start = None)
    /\ [][/\ (ProcessedStep /\ volume' >= silence_threshold) => silence_start' = None
          /\ (~ProcessedStep /\ silence_start = None) => silence_start' = None]_vars

\* A chunk at or above silence_threshold has just cancelled a pending timer,
\* in a run that has already seen a close.
C14_Witness ==
    /\ last_call = "audio_callback"
    /\ Recording
    /\ volume >= silence_threshold
    /\ volume <= voice_threshold
    /\ cancelled
    /\ silence_start = None
    /\ closes # <<>>

\* The chunks of seq are all later than every utterance closed before close n,
\* and none is earlier than the chunk `first`.
Fresh(seq, first, n) ==
    \A k \in 1..Len(seq) :
        /\ seq[k] >= first
        /\ \A i \in 1..(n - 1) : seq[k] > closes[i].last

\* C15: the callback that closes an utterance on silence returns with the
\* recorder WAITING (listening, not recording, empty buffer, no silence timer);
\* the open buffer and every utterance handed off hold no chunk of an utterance
\* closed earlier and no chunk older than their own trigger.
C15_CloseCollapsesAndNextIsFresh ==
    /\ [](/\ Fresh(audio_buffer, trigger_frame, Len(closes) + 1)
          /\ \A j \in 1..Len(threads) :
                 Fresh(threads[j].audio_data, closes[j].trigger, j))
    /\ [][(CallbackStep /\ Closed) =>
              /\ is_listening'
              /\ ~is_recording'
              /\ audio_buffer' = <<>>
              /\ silence_start' = None]_vars

\* After a close on silence and a chunk ignored in WAITING, a second utterance
\* is open and holds chunks.
C15_Witness ==
    /\ Recording
    /\ audio_buffer # <<>>
    /\ closes # <<>>
    /\ closes[Len(closes)].cause = "silence"
    /\ trigger_frame > closes[Len(closes)].last + 1

----------------------------------------------------------------------------
\* The chunks of a sequence, as a set.
Chunks(seq) == {seq[k] : k \in 1..Len(seq)}

\* C11: however stop_listening on the UI thread interleaves with a callback
\* in progress on the audio thread, no chunk is handed to two _send_audio
\* threads, and showProcessing is emitted at most once per showRecording.
C11_HandedOffAtMostOnce ==
    /\ \A i, j \in 1..Len(threads) :
           i # j => Chunks(threads[i].audio_data) \cap Chunks(threads[j].audio_data) = {}
    /\ Count(events, "showProcessing") <= Count(events, "showRecording")

----------------------------------------------------------------------------
\* A _send_audio thread that has started its upload and has no answer yet.
InFlight(w) == w.pc = "posting"

\* C16: a callback never waits for a _send_audio thread.  It leaves every
\* thread started earlier where it was, in flight or not; the callback that
\* closes an utterance returns when the thread it started has not run yet
\* (no temporary file, no upload, no showResult), having emitted showProcessing
\* and nothing else.
C16_CallbackDoesNotWait ==
    [][CallbackStep =>
          /\ SubSeq(workers', 1, Len(workers)) = workers
          /\ Closed =>
                /\ Len(workers') = Len(workers) + 1
                /\ workers'[Len(workers')].pc = "start"
                /\ workers'[Len(workers')].temp = "none"
                /\ events' = Append(events, "showProcessing")]_vars

\* With the upload of the first utterance still in flight, a callback has
\* just closed a second utterance that was triggered after the first close.
C16_Witness ==
    /\ last_call = "audio_callback"
    /\ Len(workers) = 2
    /\ InFlight(workers[1])
    /\ workers[2].pc = "start"
    /\ closes[2].cause = "silence"
    /\ closes[2].trigger > closes[1].last
    /\ Waiting

\* The utterance of thread i has fewer than 0.3 x sample_rate samples.
BelowFloor(i) == 10 * Len(threads[i].audio_data) * chunk_size < 3 * sample_rate

\* C17: a _send_audio thread whose utterance has fewer than 0.3 x sample_rate
\* samples never creates a file, never uploads and never calls showResult; once
\* it has run it has ended as dropped.
C17_ShortUtteranceDropped ==
    \A i \in 1..Len(workers) :
        BelowFloor(i) =>
            /\ workers[i].pc \in {"start", "done"}
            /\ workers[i].pc = "done" => workers[i].outcome = "too_short"
            /\ workers[i].temp = "none"
            /\ workers[i].reply = NoReply
            /\ workers[i].emitted = <<>>

\* The thread of an utterance of one chunk, closed by stop_listening after a
\* stall of the device, has run and dropped it.
C17_Witness ==
    \E i \in 1..Len(workers) :
        /\ Len(threads[i].audio_data) = 1
        /\ closes[i].cause = "stop"
        /\ workers[i].outcome = "too_short"

\* A step of a _send_audio thread that was started earlier.
WorkerStep == Len(workers') = Len(workers) /\ workers' # workers

\* The service answered the upload of w with success false.
ServiceFailed(w) == w.pc = "done" /\ w.reply.status # 0 /\ ~w.reply.success

\* C18: a _send_audio thread that got an answer with success false from the
\* service has emitted one event that carries the message of the service, and
\* its steps leave the recorder's state as it was.
C18_ServiceFailureSurfaced ==
    /\ [](\A i \in 1..Len(workers) :
              ServiceFailed(workers[i]) => workers[i].emitted = <<workers[i].reply.error>>)
    /\ [][WorkerStep => UNCHANGED <<is_listening, is_recording, audio_buffer,
                                      silence_start, record_start_time, stream>>]_vars

\* The utterance of w was uploaded: w got as far as requests.post.
Sent(w) ==
    \/ w.pc = "posting"
    \/ w.pc = "done" /\ w.outcome \notin {"too_short", "too_small", "write_failed"}

\* C19: a _send_audio thread that uploaded its utterance and has ended has
\* emitted exactly one event.
C19_OneEventPerSentUtterance ==
    \A i \in 1..Len(workers) :
        (Sent(workers[i]) /\ workers[i].pc = "done") => Len(workers[i].emitted) = 1

\* C20: a _send_audio thread that has ended has left no temporary file behind.
C20_TempFileReleased ==
    \A i \in 1..Len(workers) :
        workers[i].pc = "done" => workers[i].temp # "exists"

----------------------------------------------------------------------------
DispatchStep == last_call' = "_send_audio" /\ WorkerStep

\* C22: no step of a _send_audio thread, whatever its outcome, changes
\* is_listening, is_recording, audio_buffer, silence_start, record_start_time
\* or the stream; the utterance the thread works on stays as handed off.
C22_DispatchLeavesRecorderAlone ==
    [][DispatchStep =>
          UNCHANGED <<is_listening, is_recording, audio_buffer, silence_start,
                      record_start_time, stream, threads>>]_vars

\* A thread has just ended while the next utterance is being recorded with a
\* silence timer pending.
C22_Witness ==
    /\ last_call = "_send_audio"
    /\ Recording
    /\ audio_buffer # <<>>
    /\ silence_start # None
    /\ \E i \in 1..Len(workers) : workers[i].pc = "done" /\ Sent(workers[i])

----------------------------------------------------------------------------
\* start_listening was called on a recorder that was not listening and the
\* device could not be opened or started.
StartFailed == StartStep /\ ~is_listening /\ ~is_listening'

\* C23: a start_listening that fails on the device leaves the recorder in
\* IDLE and emits an event on the window.
C23_DeviceFailureSurfaced ==
    [][StartFailed =>
          /\ Idle(is_listening', is_recording', audio_buffer', silence_start')
          /\ Len(events') = Len(events) + 1]_vars

\* C25: the utterance buffer stays below a fixed bound: it never holds as
\* many chunks as the device delivers in a run.
C25_BufferBounded == Len(audio_buffer) < MaxFrames

----------------------------------------------------------------------------
\* C26: stop_listening leaves every _send_audio thread started earlier as it
\* is, and the threads that were started all run to their end, again and
\* again, whatever stop_listening calls come in between (a thread that has
\* ended stays ended).
C26_StopDoesNotCancel ==
    /\ [][StopStep => SubSeq(workers', 1, Len(workers)) = workers]_vars
    /\ []<>(\A i \in 1..Len(workers) : workers[i].pc = "done")

\* A thread has shown its result after stop_listening returned the recorder
\* to IDLE and closed the stream.
C26_Witness ==
    /\ last_call = "_send_audio"
    /\ Idle(is_listening, is_recording, audio_buffer, silence_start)
    /\ stream = "none"
    /\ events[Len(events)] = "showResult"
    /\ \E i \in 1..Len(workers) :
           workers[i].outcome = "shown" /\ closes[i].cause = "silence"

----------------------------------------------------------------------------
\* The first k events on the window.
Prefix(k) == SubSeq(events, 1, k)

\* C27: in every prefix of the events there are at least as many
\* showRecording as showProcessing and at least as many showProcessing as
\* showResult; a showResult is emitted by the step in which the upload of a
\* thread returns with an answer, and the showProcessing of the utterance of
\* that thread is among the events emitted before.
C27_EventsInOrder ==
    /\ [](\A k \in 1..Len(events) :
              /\ Count(Prefix(k), "showProcessing") <= Count(Prefix(k), "showRecording")
              /\ Count(Prefix(k), "showResult") <= Count(Prefix(k), "showProcessing"))
    /\ [][(Len(events') > Len(events) /\ events'[Len(events')] = "showResult") =>
              \E i \in 1..Len(workers) :
                  /\ InFlight(workers[i])
                  /\ workers'[i].pc = "done"
                  /\ workers'[i].reply.status = 200
                  /\ Len(workers'[i].emitted) = Len(workers[i].emitted) + 1
                  /\ Count(events, "showProcessing") >= i]_vars

\* The result of the second utterance has been shown while the upload of the
\* first is still in flight.
C27_Witness ==
    /\ Len(workers) = 2
    /\ InFlight(workers[1])
    /\ workers[2].outcome = "shown"
    /\ events[Len(events)] = "showResult"

----------------------------------------------------------------------------
\* The arguments of the last showResult call of a thread (line 215: one
\* argument, the text).
Payload(w) == <<w.emitted[Len(w.emitted)]>>

\* The upload of thread i was answered with a transcription and a text was shown.
Shown(i) == workers[i].pc = "done" /\ workers[i].outcome = "shown"

----------------------------------------------------------------------------
(* The /stt endpoint on its own: requests of any client, one after another *)

\* The number of requests served.
MaxRequests == 3

\* One request is handled and answered.
Serve ==
    /\ Len(served) < MaxRequests
    /\ \E request \in Requests, transcription \in Transcriptions,
          translation \in Translations :
          served' = Append(served, speech_to_text(request, transcription, translation))
    /\ UNCHANGED <<is_listening, is_recording, audio_buffer, silence_start,
                   record_start_time, stream, events, threads, now, delivered,
                   last_call, volume, trigger_frame, heard, quiet_since,
                   cancelled, closes, opened, workers, audio, ui, burst,
                   returned>>

Endpoint == Init /\ [][Serve]_vars

\* The two shapes of a response body.
SuccessShape(reply) ==
    reply.keys = {"success", "original", "translated", "language"} /\ reply.success

FailureShape(reply) ==
    reply.keys = {"success", "error"} /\ ~reply.success /\ reply.error # ""

\* C29: every response of the endpoint has the success shape or the failure
\* shape; every response that is not a 200 has the failure shape.
C29_TwoShapes ==
    \A k \in 1..Len(served) :
        /\ SuccessShape(served[k]) \/ FailureShape(served[k])
        /\ served[k].status # 200 => FailureShape(served[k])

----------------------------------------------------------------------------
\* Thread i works on an utterance that stop_listening closed.
StopClosed(i) == closes[i].cause = "stop"

\* C30 as stated: the floor on the number of samples is not applied to an
\* utterance closed by stop_listening: its thread never drops it as too short.
C30_StopClosedSkipsFloor ==
    \A i \in 1..Len(workers) :
        StopClosed(i) => workers[i].outcome # "too_short"

\* C30: stop_listening hands off the open recording only when it is at least
\* min_record_duration old, and the thread of the utterance applies the floor
\* of 0.3 x sample_rate samples to it as to any other: once a thread has run,
\* it has dropped the utterance as too short exactly when the utterance is
\* below the floor, whether stop_listening or silence closed it.
C30_StopClosedGatedTwice ==
    /\ [][(StopStep /\ Closed) =>
              /\ is_recording /\ audio_buffer # <<>>
              /\ record_start_time # None
              /\ now' - record_start_time >= min_record_duration]_vars
    /\ [](\A i \in 1..Len(workers) :
              workers[i].pc # "start" =>
                  (workers[i].outcome = "too_short" <=> BelowFloor(i)))

\* stop_listening closed a recording that was old enough and below the floor,
\* and the thread has dropped it; the recorder is IDLE.
C30_Witness ==
    /\ Idle(is_listening, is_recording, audio_buffer, silence_start)
    /\ \E i \in 1..Len(workers) :
           /\ StopClosed(i)
           /\ BelowFloor(i)
           /\ workers[i].pc = "done"
           /\ workers[i].outcome = "too_short"

----------------------------------------------------------------------------
\* C31: a chunk delivered to audio_callback while is_listening is false
\* changes no field of the recorder, starts no thread and emits no event.
C31_IgnoredWhenNotListening ==
    [][(CallbackStep /\ ~is_listening) =>
          UNCHANGED <<is_listening, is_recording, audio_buffer, silence_start,
                      record_start_time, stream, events, threads>>]_vars

\* A chunk louder than voice_threshold has just been delivered by a stream
\* that is still running after stop_listening, and was ignored.
C31_Witness ==
    /\ last_call = "audio_callback"
    /\ ~is_listening
    /\ stream = "active"
    /\ volume > voice_threshold
    /\ delivered > heard

----------------------------------------------------------------------------
\* The step is a start_listening that begins a listening session.
SessionStarts == StartStep /\ ~is_listening /\ is_listening'

\* C32: a listening session begins in WAITING, with is_recording false, and
\* a step that takes the recorder from not recording to recording is a
\* callback on a chunk louder than voice_threshold.
C32_SessionBeginsWaiting ==
    [][/\ SessionStarts => ~is_recording'
       /\ (~is_recording /\ is_recording') =>
              (CallbackStep /\ volume' > voice_threshold)]_vars

----------------------------------------------------------------------------
(* API.toggle_listening, src/temp.py lines 339-350: the command of the window *)

\* lines 343-350: the recorder after the call and the value of 'listening' in
\* the dictionary the call returns
toggle_listening(r, start, stop, t) ==
    IF ~r.is_listening
    THEN [recorder |-> start_listening(r, start), listening |-> TRUE]
    ELSE [recorder |-> stop_listening(r, stop, t), listening |-> FALSE]

\* One call of toggle_listening; the device does `start` or `stop`.
Toggle ==
    \E start \in StartOutcomes, stop \in StopOutcomes :
        /\ IF ~is_listening THEN StartListeningCall(start) ELSE StopListeningCall(stop)
        /\ returned' = <<toggle_listening(Rec, start, stop, now).listening>>

NextApi == Frame \/ Pass \/ Toggle

\* The recorder driven by the window: toggles, chunks and the clock.
Api == Init /\ [][NextApi]_vars

\* The step is one call of toggle_listening.
ToggleStep == returned' # <<>> /\ last_call' \in {"start_listening", "stop_listening"}

\* C33: the value of 'listening' that toggle_listening returns is the value
\* of is_listening when the call returns.
C33_ToggleReturnsFlag ==
    [][ToggleStep => returned' = <<is_listening'>>]_vars

----------------------------------------------------------------------------
\* The device is about to deliver 0.5 s of chunks below silence_threshold,
\* one every 10 ms, to a recorder that is recording.
SilenceBegins ==
    /\ Recording
    /\ burst.energy < silence_threshold
    /\ burst.left >= min_record_duration   \* a chunk every 10 ms: one per tick

\* The hand-offs of the utterance that the chunk trigger_frame opened.
ClosesOfCurrent == {i \in DOMAIN closes : closes[i].trigger = trigger_frame}

\* The current utterance was closed on silence and handed off once, and the
\* recorder is WAITING with no silence timer.
ClosedOnce ==
    /\ Waiting
    /\ audio_buffer = <<>>
    /\ silence_start = None
    /\ Cardinality(ClosesOfCurrent) = 1
    /\ LastClose.trigger = trigger_frame
    /\ LastClose.cause = "silence"
    /\ Len(threads) = Len(closes)

\* C34: when the recorder is recording and the device goes on delivering
\* chunks below silence_threshold, one every 10 ms, the utterance is
\* eventually closed on silence and handed to one _send_audio thread, and the
\* recorder is WAITING again; no utterance is ever handed off twice.
C34_SilenceEventuallyCloses ==
    /\ SilenceBegins ~> ClosedOnce
    /\ [](\A i, j \in DOMAIN closes : closes[i].trigger = closes[j].trigger => i = j)

\* The last chunk of a quiet run has closed the second utterance of the
\* session on silence.
C34_Witness ==
    /\ ClosedOnce
    /\ last_call = "audio_callback"
    /\ volume < silence_threshold
    /\ burst.left = 0
    /\ Len(closes) = 2

----------------------------------------------------------------------------
\* C35: an input stream is constructed and started only when the recorder
\* holds no stream that is still running, so that at most one stream feeds
\* audio_callback at a time.
C35_SingleStream ==
    [][opened' => stream # "active"]_vars

----------------------------------------------------------------------------
\* C36: a _send_audio thread whose utterance has at least 0.3 x sample_rate
\* samples and whose file was written holds a file of at least 9600 bytes and
\* goes on to the upload; no thread ever ends on the test of the file size.
C36_FloorsNested ==
    \A i \in 1..Len(workers) :
        /\ workers[i].outcome # "too_small"
        /\ (~BelowFloor(i) /\ workers[i].pc # "start"
                /\ workers[i].outcome # "write_failed") =>
              /\ Sent(workers[i])
              /\ wav_header + sample_width * Samples(threads[i].audio_data) >= 9600

\* An utterance of exactly 0.3 x sample_rate samples, the smallest the first
\* floor lets through, has been uploaded.
C36_Witness ==
    \E i \in 1..Len(workers) :
        /\ 10 * Samples(threads[i].audio_data) = 3 * sample_rate
        /\ workers[i].pc = "posting"
        /\ workers[i].temp = "exists"

----------------------------------------------------------------------------
\* C37: every utterance handed to a _send_audio thread, closed on silence or
\* by stop_listening, has at least 0.3 x sample_rate samples, and no thread
\* drops its utterance as too short.
C37_HandedOffAboveFloor ==
    \A i \in 1..Len(threads) :
        /\ 10 * Samples(threads[i].audio_data) >= 3 * sample_rate
        /\ i <= Len(workers) => workers[i].outcome # "too_short"

====
